---- MODULE Spec2Model ----
(***************************************************************************)
(* Model of lm_eval/tasks/ja/rcqa.py: the RCQA task adapters.              *)
(*                                                                         *)
(* A Python str is modelled as the sequence of its Unicode code points, so *)
(* that concatenation is \o, len is Len and `in` is a substring test.  A   *)
(* list is a sequence, a dict a record or function.                        *)
(***************************************************************************)
EXTENDS Integers, Sequences, FiniteSets, TLC

VARIABLES
    environ,             \* os.environ, as far as DYNAMIC_MAX_LENGTH goes
    cls,                 \* the class of the task object: one of VERSIONS
    REMOVE_IDS,          \* class attribute RCQA.REMOVE_IDS (a list of ids)
    DYNAMIC_MAX_LENGTH,  \* the module-level setting, already lower-cased
    tokenizer,           \* self.tokenizer
    dataset,             \* self.dataset: [train |-> list, test |-> list]
    op,                  \* the method the harness called last
    arg,                 \* the record the harness passed to that call
    doc,                 \* that record as it is after the call
    ctx,                 \* the prompt: doc_to_text's result / construct_requests' input
    target,              \* doc_to_target's result
    request,             \* the requests construct_requests issued, each its argument tuple
    results,             \* the model outputs handed to process_results
    out,                 \* process_results' return value
    items,               \* the (prediction, reference) pairs the harness collected
    score,               \* the value an aggregation function returned
    docs,                \* the split test_docs / training_docs returned
    err                  \* the exception the last call raised, if any

vars == <<environ, cls, REMOVE_IDS, DYNAMIC_MAX_LENGTH, tokenizer, dataset, op, arg, doc,
          ctx, target, request, results, out, items, score, docs, err>>

-----------------------------------------------------------------------------
(* Bounds of the model.                                                    *)

MaxDocs == 11       \* longest list of context documents in a record
MaxResults == 2     \* longest list of model outputs handed to process_results
MaxItems == 2       \* most pairs collected before an aggregation
MaxSplit == 3       \* longest dataset split

-----------------------------------------------------------------------------
(* Python helpers.                                                         *)

Min(a, b) == IF a <= b THEN a ELSE b

Max(a, b) == IF a >= b THEN a ELSE b

\* a slice that keeps one element too many
M_PySliceTo_one_more(seq, k) == SubSeq(seq, 1, Min(k + 1, Len(seq)))

\* seq[:k], for any integer k (a negative k counts from the end)
PySliceTo(seq, k) ==
    IF k >= 0 THEN SubSeq(seq, 1, Min(k, Len(seq)))
              ELSE SubSeq(seq, 1, Max(Len(seq) + k, 0))

\* sep.join(parts)
RECURSIVE PyJoin(_, _)
PyJoin(sep, parts) ==
    IF Len(parts) = 0 THEN <<>>
    ELSE IF Len(parts) = 1 THEN parts[1]
    ELSE parts[1] \o sep \o PyJoin(sep, Tail(parts))

\* the lists of at most n elements of S
RECURSIVE Lists(_, _)
Lists(S, n) ==
    IF n = 0 THEN {<<>>}
    ELSE Lists(S, n - 1) \cup {Append(l, x) : l \in {m \in Lists(S, n - 1) : Len(m) = n - 1}, x \in S}

\* str.lower(), on the ASCII letters
PyLower(s) == [i \in 1..Len(s) |-> IF s[i] \in 65..90 THEN s[i] + 32 ELSE s[i]]

-----------------------------------------------------------------------------
(* String literals of the source, as code points.                          *)

NL == <<10>>                                       \* "\n"
NLTOK == <<60, 78, 76, 62>>                        \* "<NL>"
LBL_TITLE == <<91, 38988, 21517, 93, 58>>          \* "[title]:"    (line 71)
LBL_BODY == <<91, 21839, 38988, 93, 58>>           \* "[problem]:"  (line 74)
LBL_QUESTION == <<91, 36074, 21839, 93, 58>>       \* "[question]:" (line 81)
CUE_RCQA == <<91, 31572, 12360, 93, 58>>           \* "[answer]:"   (line 84)
FINTAN_CTX == <<25991, 31456, 58>>                 \* "text:"       (line 170)
FINTAN_Q == <<36074, 21839, 58>>                   \* "question:"   (line 173)
CUE_FINTAN == <<22238, 31572, 58>>                 \* "reply:"      (line 176)
CTX_FW == <<25991, 33032, 65306>>                  \* "context" + fullwidth colon
Q_FW == <<36074, 21839, 65306>>                    \* "question" + fullwidth colon
ALPACA_HEAD == <<35, 35, 35, 32, 25351, 31034, 58, 10>>        \* "### instruction:\n"
ALPACA_INPUT == <<10, 10, 35, 35, 35, 32, 20837, 21147, 58, 10>> \* "\n\n### input:\n"
CUE_ALPACA == <<35, 35, 35, 32, 24540, 31572, 58, 10>>         \* "### response:\n"
RINNA_USER == <<12518, 12540, 12470, 12540, 58, 32>>           \* "user: "
CUE_RINNA == <<12471, 12473, 12486, 12512, 58, 32>>            \* "system: "
INSTRUCTION ==
    <<19982, 12360, 12425, 12428, 12383, 25991, 33032, 12363, 12425, 12289,
      36074, 21839, 12395, 23550, 12377, 12427, 31572, 12360, 12434, 25244,
      12365, 20986, 12375, 12390, 12367, 12384, 12373, 12356, 12290>>

-----------------------------------------------------------------------------
(* The classes and their attributes.                                       *)

VERSIONS ==
    <<"RCQA", "RCQAWithFintanPrompt", "RCQAWithJAAlpacaPrompt",
      "RCQAWithRinnaInstructionSFT">>

Classes == {VERSIONS[i] : i \in 1..Len(VERSIONS)}

_TOP_K_LIMIT == 10

TOP_K_LIMIT(c) == _TOP_K_LIMIT

SEP(c) == IF c = "RCQAWithRinnaInstructionSFT" THEN NLTOK ELSE NL

-----------------------------------------------------------------------------
(* doc_to_text of each class.                                              *)

\* title and body under each other's label
M_RCQA_document_swapped(c, document) ==
    LBL_TITLE \o document.text \o SEP(c) \o LBL_BODY \o document.title

RCQA_document(c, document) ==
    LBL_TITLE \o document.title \o SEP(c) \o LBL_BODY \o document.text

\* [ctx["text"] for ctx in documents]
DocTexts(documents) == [i \in 1..Len(documents) |-> documents[i].text]

RCQA_doc_to_text(c, d) ==
    LET topk_documents == PySliceTo(d.documents, TOP_K_LIMIT(c))
        context == PyJoin(SEP(c), [i \in 1..Len(topk_documents) |->
                                       RCQA_document(c, topk_documents[i])])
    IN  context \o SEP(c) \o LBL_QUESTION \o d.question \o SEP(c) \o CUE_RCQA

Fintan_doc_to_text(c, d) ==
    LET context == PyJoin(SEP(c), DocTexts(PySliceTo(d.documents, TOP_K_LIMIT(c))))
    IN  FINTAN_CTX \o context \o SEP(c) \o FINTAN_Q \o d.question \o SEP(c) \o CUE_FINTAN

\* the {response} slot of the docstring's template filled with the gold answer
M_JAAlpaca_doc_to_text_with_response(c, d) ==
    LET context == PyJoin(SEP(c), DocTexts(PySliceTo(d.documents, TOP_K_LIMIT(c))))
        input_text == CTX_FW \o context \o NL \o Q_FW \o d.question
    IN  ALPACA_HEAD \o INSTRUCTION \o ALPACA_INPUT \o input_text \o NL \o NL
        \o CUE_ALPACA \o d.answer

JAAlpaca_doc_to_text(c, d) ==
    LET context == PyJoin(SEP(c), DocTexts(PySliceTo(d.documents, TOP_K_LIMIT(c))))
        input_text == CTX_FW \o context \o NL \o Q_FW \o d.question
    IN  ALPACA_HEAD \o INSTRUCTION \o ALPACA_INPUT \o input_text \o NL \o NL \o CUE_ALPACA

\* the cue without its trailing space
M_Rinna_doc_to_text_no_space(c, d) ==
    LET context == PyJoin(SEP(c), DocTexts(PySliceTo(d.documents, TOP_K_LIMIT(c))))
        input_text == CTX_FW \o context \o SEP(c) \o Q_FW \o d.question
    IN  RINNA_USER \o input_text \o SEP(c) \o SubSeq(CUE_RINNA, 1, Len(CUE_RINNA) - 1)

Rinna_doc_to_text(c, d) ==
    LET context == PyJoin(SEP(c), DocTexts(PySliceTo(d.documents, TOP_K_LIMIT(c))))
        input_text == CTX_FW \o context \o SEP(c) \o Q_FW \o d.question
    IN  RINNA_USER \o input_text \o SEP(c) \o CUE_RINNA

\* method resolution: the class's own doc_to_text
doc_to_text(c, d) ==
    CASE c = "RCQA" -> RCQA_doc_to_text(c, d)
      [] c = "RCQAWithFintanPrompt" -> Fintan_doc_to_text(c, d)
      [] c = "RCQAWithJAAlpacaPrompt" -> JAAlpaca_doc_to_text(c, d)
      [] c = "RCQAWithRinnaInstructionSFT" -> Rinna_doc_to_text(c, d)

doc_to_target(c, d) == d.answer

-----------------------------------------------------------------------------
(* The module-level setting and the tokenizer.                             *)

STR_true == <<116, 114, 117, 101>>            \* "true"
STR_false == <<102, 97, 108, 115, 101>>       \* "false"
STR_False == <<70, 97, 108, 115, 101>>        \* "False"
STR_FALSE == <<70, 65, 76, 83, 69>>           \* "FALSE"
STR_0 == <<48>>                               \* "0"

\* the environment: DYNAMIC_MAX_LENGTH unset, or set to one of these values
Unset == [set |-> FALSE, value |-> <<>>]

Environments ==
    {Unset} \cup {[set |-> TRUE, value |-> v] :
                     v \in {STR_true, STR_false, STR_False, STR_FALSE, STR_0, <<>>}}

\* os.getenv(name, default)
Getenv(env, default) == IF env.set THEN env.value ELSE default

\* the value the module-level assignment of line 29 computes
LoadDynamicMaxLength(env) == PyLower(Getenv(env, STR_true))

\* A tokenizer: whether it has an encode attribute, the argument names of
\* encode, and whether encode wraps the text in special tokens unless told
\* otherwise.  encode is character-level: one token per code point.
BOS == <<1>>
EOS == <<2>>

Tokenizers ==
    { [has_encode |-> FALSE, args |-> {}, specials |-> FALSE],
      [has_encode |-> TRUE, args |-> {"self", "text"}, specials |-> FALSE],
      [has_encode |-> TRUE, args |-> {"self", "text"}, specials |-> TRUE],
      [has_encode |-> TRUE, args |-> {"self", "text", "add_special_tokens"},
       specials |-> TRUE] }

DefaultTokenizer ==
    [has_encode |-> TRUE, args |-> {"self", "text", "add_special_tokens"},
     specials |-> TRUE]

\* tokenizer.encode(text, **encode_params); encode_params is a record here
Encode(tok, text, encode_params) ==
    LET add == IF "add_special_tokens" \in DOMAIN encode_params
               THEN encode_params.add_special_tokens
               ELSE tok.specials
    IN  IF add THEN BOS \o text \o EOS ELSE text

-----------------------------------------------------------------------------
(* Records: the inputs the harness passes.                                 *)

TITLE_1 == <<26085, 26412, 12398, 39318, 37117>>         \* "capital of Japan"
TEXT_1 ==
    <<26481, 20140, 12399, 26085, 26412, 12398, 39318, 37117, 12391, 12377, 12290>>
                                                         \* "Tokyo is the capital of Japan."
TOKYO == <<26481, 20140>>                                \* "Tokyo"
KYOTO == <<20140, 37117>>                                \* "Kyoto"
QUESTION_1 ==
    <<26085, 26412, 12398, 39318, 37117, 12399, 12393, 12371, 65311>>
                                                         \* "where is the capital of Japan?"
QUESTION_2 == <<81, 63>>                                 \* "Q?"

DocumentPool ==
    << [title |-> TITLE_1, text |-> TEXT_1],
       [title |-> <<84, 50>>, text |-> KYOTO \o <<10>> \o TOKYO],  \* a body of two lines
       [title |-> <<>>, text |-> <<66, 51>>] >>

\* n documents, starting at document r of the pool and cycling through it
DocumentList(n, r) ==
    [i \in 1..n |-> DocumentPool[((i - 1 + r) % Len(DocumentPool)) + 1]]

DocumentLists == {DocumentList(n, r) : n \in 0..MaxDocs, r \in 0..(Len(DocumentPool) - 1)}

Questions == {QUESTION_1, QUESTION_2}

Answers == {TOKYO, KYOTO}

Ids == {1, 2}

NoRecord == [id |-> 0, qid |-> 0, documents |-> <<>>, question |-> <<>>, answer |-> <<>>]

PromptRecords ==
    {[id |-> 1, qid |-> 1, documents |-> ds, question |-> q, answer |-> a] :
        ds \in DocumentLists, q \in Questions, a \in Answers}

-----------------------------------------------------------------------------
(* The task object after construction, no method called yet.               *)

NoError == [type |-> "none", message |-> <<>>]

Constructed(c, remove_ids, env, tok, ds) ==
    /\ environ = env
    /\ cls = c
    /\ REMOVE_IDS = remove_ids
    /\ DYNAMIC_MAX_LENGTH = LoadDynamicMaxLength(env)
    /\ tokenizer = tok
    /\ dataset = ds
    /\ op = "init"
    /\ arg = NoRecord
    /\ doc = NoRecord
    /\ ctx = <<>>
    /\ target = <<>>
    /\ request = <<>>
    /\ results = <<>>
    /\ out = <<>>
    /\ items = <<>>
    /\ score = <<>>
    /\ docs = <<>>
    /\ err = NoError

EmptyDataset == [train |-> <<>>, test |-> <<>>]

config == <<environ, cls, REMOVE_IDS, DYNAMIC_MAX_LENGTH, tokenizer, dataset>>

-----------------------------------------------------------------------------
(* The prompt formatter: the harness calls doc_to_text and doc_to_target.  *)

\* What every call leaves behind: the method, its argument and the record
\* after the call, and the exception raised (NoError when it returned).  The
\* result variables of the other methods are cleared by each call.
Called(name, a, d, e) ==
    /\ op' = name
    /\ arg' = a
    /\ doc' = d
    /\ err' = e
    /\ UNCHANGED config

DocToText(d) ==
    /\ Called("doc_to_text", d, d, NoError)
    /\ ctx' = doc_to_text(cls, d)
    /\ target' = <<>>
    /\ request' = <<>>
    /\ results' = <<>>
    /\ out' = <<>>
    /\ score' = <<>>
    /\ docs' = <<>>
    /\ UNCHANGED items

DocToTarget(d) ==
    /\ Called("doc_to_target", d, d, NoError)
    /\ target' = doc_to_target(cls, d)
    /\ ctx' = <<>>
    /\ request' = <<>>
    /\ results' = <<>>
    /\ out' = <<>>
    /\ score' = <<>>
    /\ docs' = <<>>
    /\ UNCHANGED items

InitPrompt ==
    \E c \in Classes : Constructed(c, <<>>, Unset, DefaultTokenizer, EmptyDataset)

NextPrompt ==
    \/ \E d \in PromptRecords : DocToText(d)
    \/ \E d \in PromptRecords : DocToTarget(d)

SpecPrompt == InitPrompt /\ [][NextPrompt]_vars

-----------------------------------------------------------------------------
(* The request issuer: construct_requests.                                 *)

\* rf.greedy_until(*args): one request, kept as its argument tuple
greedy_until(args) == args

\* encode is always called with its defaults: special tokens counted
M_construct_requests_with_specials(c, dml, tok, d, prompt) ==
    IF dml = STR_false \/ ~tok.has_encode
    THEN <<greedy_until(<<prompt, <<SEP(c)>>>>)>>
    ELSE <<greedy_until(<<prompt, <<SEP(c)>>, Len(Encode(tok, d.answer, <<>>))>>)>>

\* the requests construct_requests(doc, ctx) issues, in a task of class c
\* with setting dml and tokenizer tok
construct_requests(c, dml, tok, d, prompt) ==
    IF dml = STR_false \/ ~tok.has_encode
    THEN <<greedy_until(<<prompt, <<SEP(c)>>>>)>>
    ELSE LET encode_params ==
                 IF "add_special_tokens" \in tok.args
                 THEN [add_special_tokens |-> FALSE]
                 ELSE <<>>
             max_num_tokens == Len(Encode(tok, d.answer, encode_params))
         IN  <<greedy_until(<<prompt, <<SEP(c)>>, max_num_tokens>>)>>

RequestRecords ==
    {[id |-> 1, qid |-> 1, documents |-> DocumentList(1, 0), question |-> QUESTION_1,
      answer |-> a] : a \in Answers \cup {<<>>, TEXT_1}}

\* the contexts the harness passes: prompts, with or without a few-shot example
Contexts(c) ==
    {doc_to_text(c, d) : d \in RequestRecords}
    \cup {doc_to_text(c, d) \o d.answer \o SEP(c) \o SEP(c) \o doc_to_text(c, d) :
             d \in {r \in RequestRecords : r.answer = TOKYO}}

ConstructRequests(d, prompt) ==
    /\ Called("construct_requests", d, d, NoError)
    /\ ctx' = prompt
    /\ request' = construct_requests(cls, DYNAMIC_MAX_LENGTH, tokenizer, d, prompt)
    /\ target' = <<>>
    /\ results' = <<>>
    /\ out' = <<>>
    /\ score' = <<>>
    /\ docs' = <<>>
    /\ UNCHANGED items

InitRequest ==
    \E c \in Classes, env \in Environments, tok \in Tokenizers :
        Constructed(c, <<>>, env, tok, EmptyDataset)

NextRequest == \E d \in RequestRecords : \E prompt \in Contexts(cls) : ConstructRequests(d, prompt)

SpecRequest == InitRequest /\ [][NextRequest]_vars

-----------------------------------------------------------------------------
(* The dataset splits: training_docs and test_docs.                        *)

\* item in list
PyIn(x, list) == \E i \in 1..Len(list) : list[i] = x

\* [item for item in list if item["id"] not in remove_ids]
RECURSIVE NotRemoved(_, _)
NotRemoved(list, remove_ids) ==
    IF list = <<>> THEN <<>>
    ELSE (IF ~PyIn(Head(list).id, remove_ids) THEN <<Head(list)>> ELSE <<>>)
         \o NotRemoved(Tail(list), remove_ids)

\* [item for item in list if item["id"] in remove_ids]
RECURSIVE M_Removed(_, _)
M_Removed(list, remove_ids) ==
    IF list = <<>> THEN <<>>
    ELSE (IF PyIn(Head(list).id, remove_ids) THEN <<Head(list)>> ELSE <<>>)
         \o M_Removed(Tail(list), remove_ids)

training_docs(ds, remove_ids) == ds["train"]

\* the condition of the comprehension inverted: `in` for `not in`
M_test_docs_keeps_removed(ds, remove_ids) ==
    IF Len(remove_ids) > 0 THEN M_Removed(ds["test"], remove_ids) ELSE ds["test"]

test_docs(ds, remove_ids) ==
    IF Len(remove_ids) > 0 THEN NotRemoved(ds["test"], remove_ids) ELSE ds["test"]

TestDocs ==
    /\ Called("test_docs", NoRecord, NoRecord, NoError)
    /\ docs' = test_docs(dataset, REMOVE_IDS)
    /\ ctx' = <<>>
    /\ target' = <<>>
    /\ request' = <<>>
    /\ results' = <<>>
    /\ out' = <<>>
    /\ score' = <<>>
    /\ UNCHANGED items

TrainingDocs ==
    /\ Called("training_docs", NoRecord, NoRecord, NoError)
    /\ docs' = training_docs(dataset, REMOVE_IDS)
    /\ ctx' = <<>>
    /\ target' = <<>>
    /\ request' = <<>>
    /\ results' = <<>>
    /\ out' = <<>>
    /\ score' = <<>>
    /\ UNCHANGED items

\* the records of a split: two share the id 1
SplitRecord(i, a) ==
    [id |-> i, qid |-> i, documents |-> <<>>, question |-> QUESTION_2, answer |-> a]

SplitRecords == {SplitRecord(1, TOKYO), SplitRecord(2, KYOTO), SplitRecord(1, KYOTO)}

RemoveLists == {<<>>, <<1>>, <<2>>, <<1, 2>>, <<3>>}

TrainSplits == {<<>>, <<SplitRecord(1, TOKYO)>>, <<SplitRecord(2, KYOTO), SplitRecord(1, TOKYO)>>}

InitDocs ==
    \E c \in Classes, r \in RemoveLists, tr \in TrainSplits, te \in Lists(SplitRecords, MaxSplit) :
        Constructed(c, r, Unset, DefaultTokenizer, [train |-> tr, test |-> te])

NextDocs == TestDocs \/ TrainingDocs

SpecDocs == InitDocs /\ [][NextDocs]_vars

-----------------------------------------------------------------------------
(* The scorer: process_results, aggregation, higher_is_better, _squad_agg. *)

\* "results should be a list with 1 str element, but is "
ASSERT_MESSAGE ==
    <<114, 101, 115, 117, 108, 116, 115, 32, 115, 104, 111, 117, 108, 100,
      32, 98, 101, 32, 97, 32, 108, 105, 115, 116, 32, 119, 105, 116, 104,
      32, 49, 32, 115, 116, 114, 32, 101, 108, 101, 109, 101, 110, 116, 44,
      32, 98, 117, 116, 32, 105, 115, 32>>

\* "not enough values to unpack (expected 2, got 0)"
UNPACK_MESSAGE ==
    <<110, 111, 116, 32, 101, 110, 111, 117, 103, 104, 32, 118, 97, 108,
      117, 101, 115, 32, 116, 111, 32, 117, 110, 112, 97, 99, 107, 32, 40,
      101, 120, 112, 101, 99, 116, 101, 100, 32, 50, 44, 32, 103, 111, 116,
      32, 48, 41>>

\* repr of a str without quotes, backslashes or control characters
PyReprStr(str) == <<39>> \o str \o <<39>>

\* repr of a list of such strs, as an f-string formats it
PyReprList(list) ==
    <<91>> \o PyJoin(<<44, 32>>, [i \in 1..Len(list) |-> PyReprStr(list[i])]) \o <<93>>

Raise(type, message) == [raised |-> [type |-> type, message |-> message], value |-> <<>>]

Return(value) == [raised |-> NoError, value |-> value]

\* the assertion gone, as in a run that does not check assertions
M_process_results_unchecked(c, d, rs) ==
    IF Len(rs) = 0 THEN Raise("IndexError", <<>>)
    ELSE Return([exact_match |->
                     <<[id |-> d.qid, prediction_text |-> rs[1]],
                       [id |-> d.qid,
                        answers |-> [text |-> <<d.answer>>, answer_start |-> <<-1>>]]>>,
                 f1 |->
                     <<[id |-> d.qid, prediction_text |-> rs[1]],
                       [id |-> d.qid,
                        answers |-> [text |-> <<d.answer>>, answer_start |-> <<-1>>]]>>])

\* the prediction and the reference identified by doc["id"], the field
\* test_docs reads, instead of doc["qid"]
M_process_results_by_id(c, d, rs) ==
    IF Len(rs) # 1 THEN Raise("AssertionError", ASSERT_MESSAGE \o PyReprList(rs))
    ELSE Return([exact_match |->
                     <<[id |-> d.id, prediction_text |-> rs[1]],
                       [id |-> d.id,
                        answers |-> [text |-> <<d.answer>>, answer_start |-> <<-1>>]]>>,
                 f1 |->
                     <<[id |-> d.id, prediction_text |-> rs[1]],
                       [id |-> d.id,
                        answers |-> [text |-> <<d.answer>>, answer_start |-> <<-1>>]]>>])

\* the gold text taken from the question instead of the answer
M_process_results_gold_question(c, d, rs) ==
    IF Len(rs) # 1 THEN Raise("AssertionError", ASSERT_MESSAGE \o PyReprList(rs))
    ELSE Return([exact_match |->
                     <<[id |-> d.qid, prediction_text |-> rs[1]],
                       [id |-> d.qid,
                        answers |-> [text |-> <<d.question>>, answer_start |-> <<-1>>]]>>,
                 f1 |->
                     <<[id |-> d.qid, prediction_text |-> rs[1]],
                       [id |-> d.qid,
                        answers |-> [text |-> <<d.question>>, answer_start |-> <<-1>>]]>>])

process_results(c, d, rs) ==
    IF Len(rs) # 1 THEN Raise("AssertionError", ASSERT_MESSAGE \o PyReprList(rs))
    ELSE LET continuation == rs[1]
             predictions == [id |-> d.qid, prediction_text |-> continuation]
             gold == [text |-> <<d.answer>>, answer_start |-> <<-1>>]
             references == [id |-> d.qid, answers |-> gold]
         IN  Return([exact_match |-> <<predictions, references>>,
                     f1 |-> <<predictions, references>>])

\* aggregation(): each key bound to _squad_agg by partial; the bound key stands
\* for the partial
aggregation(c) == [exact_match |-> "exact_match", f1 |-> "f1"]

higher_is_better(c) == [exact_match |-> TRUE, f1 |-> TRUE]

\* zip(*item): as many tuples as the shortest element of item has components,
\* none when item is empty
PyZipStar(item) ==
    IF item = <<>> THEN <<>>
    ELSE LET lens == {Len(item[i]) : i \in 1..Len(item)}
             n == CHOOSE m \in lens : \A l \in lens : m <= l
         IN  [j \in 1..n |-> [i \in 1..Len(item) |-> item[i][j]]]

\* Fractions, for the metric's values.
RECURSIVE GCD(_, _)
GCD(a, b) == IF b = 0 THEN a ELSE GCD(b, a % b)

Frac(n, d) == IF n = 0 THEN [num |-> 0, den |-> 1]
              ELSE [num |-> n \div GCD(n, d), den |-> d \div GCD(n, d)]

FracAdd(x, y) == Frac(x.num * y.den + y.num * x.den, x.den * y.den)

FracMax(x, y) == IF x.num * y.den >= y.num * x.den THEN x ELSE y

RECURSIVE Mean(_, _)
\* the mean of the fractions fs[1..n], given as the sum over Len(fs)
Mean(fs, n) ==
    IF n = 0 THEN Frac(0, 1)
    ELSE FracAdd(Mean(fs, n - 1), Frac(fs[n].num, fs[n].den * Len(fs)))

\* The metric jasquad: exact match is 1 when the normalized prediction equals a
\* normalized gold answer, F1 the harmonic mean of the precision and the recall
\* of the prediction's tokens; both are averaged over the examples.  A token
\* is a code point; normalization drops white space.
Normalize(text) == SelectSeq(text, LAMBDA ch : ch \notin {32, 10, 12288})

Count(text, t) == Cardinality({i \in 1..Len(text) : text[i] = t})

RECURSIVE SumOver(_, _, _)
SumOver(T, p, g) ==
    IF T = {} THEN 0
    ELSE LET t == CHOOSE x \in T : TRUE
         IN  Min(Count(p, t), Count(g, t)) + SumOver(T \ {t}, p, g)

ExactMatchScore(prediction, gold) ==
    IF Normalize(prediction) = Normalize(gold) THEN Frac(1, 1) ELSE Frac(0, 1)

F1Score(prediction, gold) ==
    LET p == Normalize(prediction)
        g == Normalize(gold)
        num_same == SumOver({p[i] : i \in 1..Len(p)}, p, g)
    IN  IF num_same = 0 THEN Frac(0, 1) ELSE Frac(2 * num_same, Len(p) + Len(g))

RECURSIVE BestOver(_, _, _, _)
\* the best score of the prediction over the gold answers golds[1..n]
BestOver(kind, prediction, golds, n) ==
    IF n = 0 THEN Frac(0, 1)
    ELSE FracMax(BestOver(kind, prediction, golds, n - 1),
                 IF kind = "f1" THEN F1Score(prediction, golds[n])
                                ELSE ExactMatchScore(prediction, golds[n]))

jasquad_compute(predictions, references) ==
    LET per(kind) ==
            [i \in 1..Len(predictions) |->
                BestOver(kind, predictions[i].prediction_text,
                         references[i].answers.text, Len(references[i].answers.text))]
    IN  [exact_match |-> Mean(per("exact_match"), Len(predictions)),
         f1 |-> Mean(per("f1"), Len(predictions))]

_squad_metric(predictions, references) == jasquad_compute(predictions, references)

\* predictions, references = zip(*item) fails unless zip yields two tuples
_squad_agg(key, item) ==
    LET zipped == PyZipStar(item)
    IN  IF Len(zipped) # 2 THEN Raise("ValueError", UNPACK_MESSAGE)
        ELSE Return(_squad_metric(zipped[1], zipped[2])[key])

ScoreRecords ==
    {[id |-> i + 2, qid |-> i, documents |-> DocumentList(1, 0), question |-> QUESTION_1,
      answer |-> a] : i \in Ids, a \in Answers}

\* what a model may return: the answer, and the answer after a space
Outputs == {TOKYO, <<32>> \o TOKYO}

\* The harness calls process_results for a record and, when it returns, adds the
\* pair to the list it keeps for each metric (the two lists hold the same
\* pairs); an exception ends the evaluation.
ProcessResults(d, rs) ==
    /\ err = NoError
    /\ Len(items) < MaxItems
    /\ LET r == process_results(cls, d, rs)
       IN  /\ Called("process_results", d, d, r.raised)
           /\ out' = r.value
           /\ items' = IF r.raised = NoError THEN Append(items, r.value["exact_match"])
                                             ELSE items
    /\ results' = rs
    /\ ctx' = <<>>
    /\ target' = <<>>
    /\ request' = <<>>
    /\ score' = <<>>
    /\ docs' = <<>>

Aggregator(key) == IF key = "f1" THEN "aggregation.f1" ELSE "aggregation.exact_match"

\* The harness calls aggregation()[key] on the pairs collected so far.
Aggregate(key) ==
    /\ err = NoError
    /\ LET r == _squad_agg(aggregation(cls)[key], items)
       IN  /\ err' = r.raised
           /\ score' = r.value
    /\ op' = Aggregator(key)
    /\ UNCHANGED <<config, arg, doc, ctx, target, request, results, out, items, docs>>

InitScore ==
    \E c \in Classes : Constructed(c, <<>>, Unset, DefaultTokenizer, EmptyDataset)

NextScore ==
    \/ \E d \in ScoreRecords : \E rs \in Lists(Outputs, MaxResults) : ProcessResults(d, rs)
    \/ \E key \in DOMAIN aggregation(cls) : Aggregate(key)

SpecScore == InitScore /\ [][NextScore]_vars

-----------------------------------------------------------------------------
(* Properties of the prompt formatter.                                     *)

\* pat in s, for strings
Contains(s, pat) ==
    \E i \in 0..(Len(s) - Len(pat)) : SubSeq(s, i + 1, i + Len(pat)) = pat

EndsWith(s, suffix) ==
    /\ Len(suffix) <= Len(s)
    /\ SubSeq(s, Len(s) - Len(suffix) + 1, Len(s)) = suffix

\* the answer cue each template is documented to end with
AnswerCue(c) ==
    CASE c = "RCQA" -> <<91, 31572, 12360, 93, 58>>
      [] c = "RCQAWithFintanPrompt" -> <<22238, 31572, 58>>
      [] c = "RCQAWithJAAlpacaPrompt" -> <<35, 35, 35, 32, 24540, 31572, 58, 10>>
      [] c = "RCQAWithRinnaInstructionSFT" -> <<12471, 12473, 12486, 12512, 58, 32>>

\* C1: whatever the record and whichever of the four classes, the prompt
\* doc_to_text returns contains the record's question and ends with the answer
\* cue of the class.
C1_PromptHasQuestionAndCue ==
    op = "doc_to_text" =>
        /\ err = NoError
        /\ Contains(ctx, arg.question)
        /\ EndsWith(ctx, AnswerCue(cls))

C1_Witness ==
    /\ op = "doc_to_text"
    /\ cls = "RCQAWithRinnaInstructionSFT"
    /\ arg.documents = <<>>
    /\ arg.question = QUESTION_1

\* how one context document appears in a prompt of class c
Shown(c, document) ==
    IF c = "RCQA"
    THEN <<91, 38988, 21517, 93, 58>> \o document.title \o <<10>>
         \o <<91, 21839, 38988, 93, 58>> \o document.text
    ELSE document.text

Separator(c) == IF c = "RCQAWithRinnaInstructionSFT" THEN <<60, 78, 76, 62>> ELSE <<10>>

RECURSIVE SumLen(_)
SumLen(parts) == IF parts = <<>> THEN 0 ELSE Len(Head(parts)) + SumLen(Tail(parts))

\* the strings of pats occur in s one after the other, without overlap, from
\* position from on
RECURSIVE OccurInOrder(_, _, _)
OccurInOrder(s, pats, from) ==
    IF pats = <<>> THEN TRUE
    ELSE LET p == Head(pats)
             at == {i \in from..(Len(s) - Len(p) + 1) : SubSeq(s, i, i + Len(p) - 1) = p}
         IN  /\ at # {}
             /\ OccurInOrder(s, Tail(pats),
                             (CHOOSE i \in at : \A j \in at : i <= j) + Len(p))

\* C2: the prompt holds the first min(n, TOP_K_LIMIT) documents of the record,
\* in their order, and nothing of the others: it is as long as the prompt of
\* the same record without documents plus those documents and the separators
\* between them; the call raises nothing.
C2_PromptHoldsFirstTopK ==
    op = "doc_to_text" =>
        LET n == Len(arg.documents)
            k == IF n <= 10 THEN n ELSE 10
            shown == [i \in 1..k |-> Shown(cls, arg.documents[i])]
            frame == doc_to_text(cls, [arg EXCEPT !.documents = <<>>])
        IN  /\ err = NoError
            /\ OccurInOrder(ctx, shown, 1)
            /\ Len(ctx) = Len(frame) + SumLen(shown)
                          + (IF k > 0 THEN (k - 1) * Len(Separator(cls)) ELSE 0)

C2_Witness ==
    /\ op = "doc_to_text"
    /\ Len(arg.documents) > 10
    /\ arg.documents[11] # arg.documents[10]

\* C3: for a record with one document, the default template's prompt is the
\* four labelled parts on four lines and nothing else; for the documented
\* example it is the documented string.
C3_OneDocumentPrompt ==
    (op = "doc_to_text" /\ cls = "RCQA" /\ Len(arg.documents) = 1) =>
        /\ ctx = <<91, 38988, 21517, 93, 58>> \o arg.documents[1].title \o <<10>>
                 \o <<91, 21839, 38988, 93, 58>> \o arg.documents[1].text \o <<10>>
                 \o <<91, 36074, 21839, 93, 58>> \o arg.question \o <<10>>
                 \o <<91, 31572, 12360, 93, 58>>
        /\ (arg.documents[1] = [title |-> TITLE_1, text |-> TEXT_1]) =>
               ctx = <<91, 38988, 21517, 93, 58, 26085, 26412, 12398, 39318, 37117, 10,
                       91, 21839, 38988, 93, 58, 26481, 20140, 12399, 26085, 26412,
                       12398, 39318, 37117, 12391, 12377, 12290, 10,
                       91, 36074, 21839, 93, 58>>
                     \o arg.question \o <<10, 91, 31572, 12360, 93, 58>>

C3_Witness ==
    /\ op = "doc_to_text"
    /\ cls = "RCQA"
    /\ arg.documents = <<[title |-> TITLE_1, text |-> TEXT_1]>>
    /\ arg.answer = TOKYO

\* C10: the prompt is the same for every record with the same documents and
\* question, whatever its gold answer and identifiers, and doc_to_text leaves
\* the record as it was passed.
C10_PromptIgnoresAnswer ==
    op = "doc_to_text" =>
        /\ doc = arg
        /\ \A a \in Answers \cup {<<>>}, i \in Ids :
               doc_to_text(cls, [arg EXCEPT !.answer = a, !.qid = i, !.id = i]) = ctx

C10_Witness ==
    /\ op = "doc_to_text"
    /\ cls = "RCQAWithJAAlpacaPrompt"
    /\ arg.answer = KYOTO
    /\ Len(arg.documents) = 2

-----------------------------------------------------------------------------
(* Properties of the request issuer.                                       *)

\* the number of tokens of the answer itself, and of the wrapping a tokenizer
\* adds when it cannot be told not to
AnswerTokens(tok, answer) ==
    Len(answer) + (IF tok.specials /\ "add_special_tokens" \notin tok.args THEN 2 ELSE 0)

\* C6: construct_requests issues one request, for the given prompt and the stop
\* list [SEP]; it carries a maximum length exactly when DYNAMIC_MAX_LENGTH is not
\* "false" and the tokenizer has encode, which is so when the variable is unset
\* and encode exists; the maximum is the token count of the gold answer.
C6_OneRequestWithMaxLength ==
    op = "construct_requests" =>
        LET limited == DYNAMIC_MAX_LENGTH # <<102, 97, 108, 115, 101>> /\ tokenizer.has_encode
        IN  /\ err = NoError
            /\ Len(request) = 1
            /\ request[1][1] = ctx
            /\ request[1][2] = <<Separator(cls)>>
            /\ limited => /\ Len(request[1]) = 3
                          /\ request[1][3] = AnswerTokens(tokenizer, arg.answer)
            /\ ~limited => Len(request[1]) = 2
            /\ (~environ.set /\ tokenizer.has_encode) => limited

C6_Witness ==
    /\ op = "construct_requests"
    /\ ~environ.set
    /\ tokenizer.has_encode
    /\ "add_special_tokens" \in tokenizer.args
    /\ arg.answer = TOKYO
    /\ Len(request[1]) = 3

-----------------------------------------------------------------------------
(* Properties of the dataset splits.                                       *)

\* C8: test_docs returns the records of the test split whose id is not in
\* REMOVE_IDS, each as often as the split holds it and in the split's order; the
\* whole split when REMOVE_IDS is empty; training_docs returns the training
\* split whatever REMOVE_IDS is.
C8_TestDocsFiltered ==
    /\ op = "test_docs" =>
           LET test == dataset.test
               removed == {REMOVE_IDS[j] : j \in 1..Len(REMOVE_IDS)}
               kept == {i \in 1..Len(test) : test[i].id \notin removed}
           IN  /\ err = NoError
               /\ Len(docs) = Cardinality(kept)
               /\ \A i \in kept : docs[Cardinality({j \in kept : j <= i})] = test[i]
               /\ REMOVE_IDS = <<>> => docs = test
    /\ op = "training_docs" => docs = dataset.train

C8_Witness ==
    /\ op = "test_docs"
    /\ REMOVE_IDS = <<1>>
    /\ Len(dataset.test) = 3
    /\ dataset.test[1].id = 1
    /\ dataset.test[2].id = 2
    /\ dataset.test[3].id = 1
    /\ Len(docs) = 1

-----------------------------------------------------------------------------
(* Properties of the scorer.                                               *)

\* C4: with no output or with several, process_results raises the assertion
\* error, whose message shows the outputs, and returns nothing, no pair
\* either.
C4_NotOneOutputHalts ==
    (op = "process_results" /\ Len(results) # 1) =>
        /\ err.type = "AssertionError"
        /\ \A i \in 1..Len(results) : Contains(err.message, results[i])
        /\ results = <<>> => EndsWith(err.message, <<91, 93>>)
        /\ DOMAIN out = {}

C4_Witness ==
    /\ op = "process_results"
    /\ Len(results) = 2
    /\ results[1] # results[2]
    /\ err.type = "AssertionError"

\* C5: an aggregation function called with the empty list returns the metric's
\* value.
C5_EmptyAggregationReturns ==
    (op \in {"aggregation.exact_match", "aggregation.f1"} /\ items = <<>>) =>
        /\ err = NoError
        /\ DOMAIN score = {"num", "den"}

C9_ProcessResultsShape ==
    (op = "process_results" /\ Len(results) = 1) =>
        LET pair == << [id |-> arg.qid, prediction_text |-> results[1]],
                       [id |-> arg.qid,
                        answers |-> [text |-> <<arg.answer>>, answer_start |-> <<-1>>]] >>
        IN  /\ err = NoError
            /\ DOMAIN out = {"exact_match", "f1"}
            /\ DOMAIN aggregation(cls) = DOMAIN out
            /\ DOMAIN higher_is_better(cls) = DOMAIN out
            /\ \A k \in DOMAIN out : higher_is_better(cls)[k] = TRUE /\ out[k] = pair

C9_Witness ==
    /\ op = "process_results"
    /\ results = << <<32>> \o TOKYO >>
    /\ arg.answer = KYOTO
    /\ arg.qid = 2
    /\ DOMAIN out = {"exact_match", "f1"}

====
